---- MODULE Spec2Model ----
(***************************************************************************)
(* Durable execution checkpoints: the Manager (DurableExecution) on top of *)
(* the Redis storage backend (RedisDurableStorage).                        *)
(*                                                                         *)
(* Redis is modelled by three maps: the primary keys "<prefix><id>", the   *)
(* metadata hashes "<prefix>meta:<id>" and the status index sets           *)
(* "<prefix>index:<status>".  A key that does not exist is outside the     *)
(* DOMAIN of its map; an index set that does not exist is the empty set.   *)
(* Time is a logical clock: an ISO-8601 string of one fixed format is      *)
(* represented by the instant it denotes, so that string comparison of two *)
(* stamps is comparison of the instants.                                   *)
(***************************************************************************)
EXTENDS Integers, Sequences, FiniteSets, TLC

VARIABLES primary, meta, index, now, call, pending

vars == <<primary, meta, index, now, call, pending>>

-----------------------------------------------------------------------------
(* Bounds and input sets *)

\* the clock runs over the instants 0..MaxClock
MaxClock == 2

\* background tasks an event loop holds at most
MaxPending == 1

\* execution identifiers in use
Ids == {"e1", "e2"}

\* what the engine hands to save_checkpoint: snapshots and the step reached
CheckpointInputs ==
    { [task |-> "task", context |-> "ctx0", step_index |-> 0, step_name |-> "fetch"],
      [task |-> "task", context |-> "ctx1", step_index |-> 1, step_name |-> "process"] }

\* error strings passed to mark_failed
ErrorInputs == {"timeout"}

\* older_than_days arguments of cleanup (the clock's unit is the day)
DaysInputs == {0, 1}

\* ttl arguments of set_ttl, in units of the clock
TtlInputs == {1}

\* limit arguments of list: None, 0 and 1
LimitInputs == {<<>>, <<0>>, <<1>>}

-----------------------------------------------------------------------------
(* Python values *)

\* None; also what str(None) / an f-string makes of it
PyNone == "None"

\* a timestamp that is None or "" (both are falsy, both sort before any stamp)
NoTime == -1

\* the result of a lookup that found nothing (None returned by a function)
Absent == [absent |-> TRUE]

\* a timestamp string that datetime.fromisoformat rejects
BadTime == -2

AllStatuses == <<"running", "paused", "completed", "failed">>

TerminalStatuses == <<"completed", "failed">>

Statuses == {AllStatuses[i] : i \in DOMAIN AllStatuses}

\* suffixes of the index keys the model can hold
IndexKeys == Statuses \cup {PyNone, ""}

SeqToSet(s) == {s[i] : i \in DOMAIN s}

\* v is truthy, for a string-valued or None-valued field
Truthy(v) == v # PyNone /\ v # ""

\* state.get(k, default)
Get(state, k, default) == IF k \in DOMAIN state THEN state[k] ELSE default

\* state.get(k) or alt, for a string-valued field
GetOr(state, k, alt) ==
    IF k \in DOMAIN state /\ Truthy(state[k]) THEN state[k] ELSE alt

\* str(n) and int(s) for the step indexes in use
Digits == <<"0", "1", "2", "3">>

str(n) == Digits[n + 1]

int(s) == CHOOSE n \in 0..(Len(Digits) - 1) : Digits[n + 1] = s

\* json.dumps / json.loads of a state dictionary
dumps(state) == [json |-> state]

loads(blob) == IF "json" \in DOMAIN blob THEN blob.json ELSE Absent

\* a map with key k set to v, and with key k removed
Put(map, k, v) == [x \in DOMAIN map \cup {k} |-> IF x = k THEN v ELSE map[x]]

Del(map, k) == [x \in DOMAIN map \ {k} |-> map[x]]

-----------------------------------------------------------------------------
(* RedisDurableStorage, as functions of the store S = [primary, meta, index] *)

Store == [primary |-> primary, meta |-> meta, index |-> index]

make_index_key(status) == status

\* A key with an expiry holds it in the field expire_at of its value.  SET and
\* DEL drop the expiry of a key; HSET on an existing hash keeps it.
expire(map, k, t) ==
    IF k \in DOMAIN map
    THEN Put(map, k, [f \in DOMAIN map[k] \cup {"expire_at"} |->
                        IF f = "expire_at" THEN t ELSE map[k][f]])
    ELSE map

\* the hash v written by HSET over the key k of map
hset(map, k, v) ==
    IF k \in DOMAIN map /\ "expire_at" \in DOMAIN map[k]
    THEN Put(map, k, [f \in DOMAIN v \cup {"expire_at"} |->
                        IF f = "expire_at" THEN map[k].expire_at ELSE v[f]])
    ELSE Put(map, k, v)

\* the keys of map that have not expired at time t
evict(map, t) ==
    [k \in {x \in DOMAIN map :
               "expire_at" \in DOMAIN map[x] => map[x].expire_at > t} |-> map[k]]

\* the store after set_ttl
set_ttl(S, execution_id, ttl_seconds, t) ==
    [S EXCEPT !.primary = expire(S.primary, execution_id, t + ttl_seconds),
              !.meta = expire(S.meta, execution_id, t + ttl_seconds)]

\* the metadata hash written by _save_to_redis
save_metadata(execution_id, state) ==
    [ execution_id |-> execution_id,
      status       |-> GetOr(state, "status", "running"),
      step_index   |-> str(Get(state, "step_index", 0)),
      step_name    |-> GetOr(state, "step_name", "unknown"),
      timestamp    |-> Get(state, "timestamp", NoTime),
      saved_at     |-> Get(state, "saved_at", NoTime),
      error        |-> GetOr(state, "error", "") ]

\* the status whose index set _save_to_redis adds the identifier to
save_index_status(state) == Get(state, "status", "running")

\* save_state_async writing the primary key only when it does not exist yet
save_state_async_keep_first(S, execution_id, state0, t) ==
    LET state == [k \in DOMAIN state0 \cup {"saved_at", "execution_id"} |->
                    IF k = "saved_at" THEN t
                    ELSE IF k = "execution_id" THEN execution_id
                    ELSE state0[k]]
        index_key == make_index_key(save_index_status(state))
    IN  IF execution_id \in DOMAIN S.primary
        THEN S
        ELSE [ primary |-> Put(S.primary, execution_id, dumps(state)),
               meta    |-> Put(S.meta, execution_id, save_metadata(execution_id, state)),
               index   |-> [S.index EXCEPT ![index_key] = @ \cup {execution_id}] ]

\* save_state_async whose SET is applied before, and apart from, the HSET and
\* the SADD of the pipeline
save_state_async_primary_first(S, execution_id, state0, t) ==
    LET state == [k \in DOMAIN state0 \cup {"saved_at", "execution_id"} |->
                    IF k = "saved_at" THEN t
                    ELSE IF k = "execution_id" THEN execution_id
                    ELSE state0[k]]
    IN  [S EXCEPT !.primary = Put(S.primary, execution_id, dumps(state))]

save_state_async(S, execution_id, state0, t) ==
    LET state == [k \in DOMAIN state0 \cup {"saved_at", "execution_id"} |->
                    IF k = "saved_at" THEN t
                    ELSE IF k = "execution_id" THEN execution_id
                    ELSE state0[k]]
        index_key == make_index_key(save_index_status(state))
    IN  [ primary |-> Put(S.primary, execution_id, dumps(state)),
          meta    |-> hset(S.meta, execution_id, save_metadata(execution_id, state)),
          index   |-> [S.index EXCEPT ![index_key] = @ \cup {execution_id}] ]

load_state_async(S, execution_id) ==
    IF execution_id \notin DOMAIN S.primary
    THEN Absent
    ELSE loads(S.primary[execution_id])

\* delete_state_async deleting the index set instead of removing one member
delete_state_async_whole_index(S, execution_id) ==
    LET state == load_state_async(S, execution_id)
        r_key == IF execution_id \in DOMAIN S.primary THEN 1 ELSE 0
        r_meta == IF execution_id \in DOMAIN S.meta THEN 1 ELSE 0
        index_key == make_index_key(Get(state, "status", "running"))
        r_srem == IF state # Absent /\ S.index[index_key] # {} THEN 1 ELSE 0
    IN  [ store |->
            [ primary |-> Del(S.primary, execution_id),
              meta    |-> Del(S.meta, execution_id),
              index   |-> IF state # Absent
                          THEN [S.index EXCEPT ![index_key] = {}]
                          ELSE S.index ],
          ret |-> (r_key > 0 \/ r_meta > 0 \/ r_srem > 0) ]

\* the store after delete_state_async and the value it returns
delete_state_async(S, execution_id) ==
    LET state == load_state_async(S, execution_id)
        r_key == IF execution_id \in DOMAIN S.primary THEN 1 ELSE 0
        r_meta == IF execution_id \in DOMAIN S.meta THEN 1 ELSE 0
        index_key == make_index_key(Get(state, "status", "running"))
        r_srem == IF state # Absent /\ execution_id \in S.index[index_key]
                  THEN 1 ELSE 0
    IN  [ store |->
            [ primary |-> Del(S.primary, execution_id),
              meta    |-> Del(S.meta, execution_id),
              index   |-> IF state # Absent
                          THEN [S.index EXCEPT ![index_key] = @ \ {execution_id}]
                          ELSE S.index ],
          ret |-> (r_key > 0 \/ r_meta > 0 \/ r_srem > 0) ]

\* the entry list_executions_async builds from one metadata hash
list_entry(metadata, execution_id) ==
    [ execution_id |-> Get(metadata, "execution_id", execution_id),
      status       |-> metadata.status,
      step_index   |-> int(Get(metadata, "step_index", "0")),
      step_name    |-> metadata.step_name,
      timestamp    |-> metadata.timestamp,
      saved_at     |-> metadata.saved_at,
      error        |-> metadata.error ]

\* the identifiers _list_from_redis fetches metadata for
list_execution_ids(S, status) ==
    IF Truthy(status)
    THEN S.index[make_index_key(status)]
    ELSE DOMAIN S.meta

\* the entries appended to result: identifiers whose metadata hash exists
list_entries(S, status) ==
    { list_entry(S.meta[i], i) : i \in list_execution_ids(S, status) \cap DOMAIN S.meta }

RECURSIVE Perms(_)
Perms(E) ==
    IF E = {} THEN {<<>>}
    ELSE UNION { { <<e>> \o p : p \in Perms(E \ {e}) } : e \in E }

\* result.sort(key=timestamp, reverse=True): a stable sort of a list built in
\* the iteration order of a set, so entries of equal timestamp come in any order
list_sorted(E) ==
    { r \in Perms(E) :
        \A i, j \in DOMAIN r : i < j => r[i].timestamp >= r[j].timestamp }

\* "if limit: result = result[:limit]"; limit is <<>> (None) or <<n>>, n >= 0
list_truncate(r, limit) ==
    IF limit = <<>> \/ limit[1] = 0
    THEN r
    ELSE SubSeq(r, 1, IF limit[1] < Len(r) THEN limit[1] ELSE Len(r))

\* every list list_executions_async(status, limit) can return
list_executions_async(S, status, limit) ==
    { list_truncate(r, limit) : r \in list_sorted(list_entries(S, status)) }

\* one iteration of the inner loop that compares every non-empty timestamp
\* with the cutoff
cleanup_visit_no_parse(R, execution_id, cutoff_date) ==
    LET S == R.store
        timestamp == IF execution_id \in DOMAIN S.meta
                     THEN S.meta[execution_id].timestamp
                     ELSE NoTime
    IN  IF timestamp = NoTime
        THEN R
        ELSE IF timestamp < cutoff_date
             THEN LET d == delete_state_async(S, execution_id)
                  IN  [ store |-> d.store,
                        count |-> IF d.ret THEN R.count + 1 ELSE R.count ]
             ELSE R

\* one iteration of the inner loop of cleanup_old_executions_async
cleanup_visit(R, execution_id, cutoff_date) ==
    LET S == R.store
        timestamp == IF execution_id \in DOMAIN S.meta
                     THEN S.meta[execution_id].timestamp
                     ELSE NoTime
    IN  IF timestamp = NoTime
        THEN R
        ELSE IF timestamp = BadTime
        THEN \* ValueError in fromisoformat: continue
             R
        ELSE IF timestamp < cutoff_date
             THEN LET d == delete_state_async(S, execution_id)
                  IN  [ store |-> d.store,
                        count |-> IF d.ret THEN R.count + 1 ELSE R.count ]
             ELSE R

\* the inner loop over the members read from one index set
RECURSIVE cleanup_loop(_, _, _)
cleanup_loop(R, execution_ids, cutoff_date) ==
    IF execution_ids = {} THEN R
    ELSE LET i == CHOOSE x \in execution_ids : TRUE
         IN  cleanup_loop(cleanup_visit(R, i, cutoff_date),
                          execution_ids \ {i}, cutoff_date)

\* the outer loop over ["completed", "failed"], from position k
RECURSIVE cleanup_statuses(_, _, _)
cleanup_statuses(R, k, cutoff_date) ==
    IF k > Len(TerminalStatuses) THEN R
    ELSE cleanup_statuses(
           cleanup_loop(R, R.store.index[make_index_key(TerminalStatuses[k])],
                        cutoff_date),
           k + 1, cutoff_date)

\* the store after cleanup_old_executions_async and the count it returns
cleanup_old_executions_async(S, older_than_days, t) ==
    cleanup_statuses([store |-> S, count |-> 0], 1, t - older_than_days)

\* sum(by_status.values())
RECURSIVE sum_values(_)
sum_values(f) ==
    IF DOMAIN f = {} THEN 0
    ELSE LET k == CHOOSE x \in DOMAIN f : TRUE
         IN  f[k] + sum_values([x \in DOMAIN f \ {k} |-> f[x]])

\* the total_executions and by_status of get_stats
get_stats(S) ==
    LET by_status ==
            [st \in {x \in Statuses : Cardinality(S.index[make_index_key(x)]) > 0} |->
               Cardinality(S.index[make_index_key(st)])]
    IN  [total_executions |-> sum_values(by_status), by_status |-> by_status]

\* clear_all_indexes leaving the last status of the list out
clear_all_indexes_short(S) ==
    [S EXCEPT !.index = [k \in IndexKeys |->
                           IF k \in {AllStatuses[n] : n \in 1..(Len(AllStatuses) - 1)}
                           THEN {} ELSE S.index[k]]]

clear_all_indexes(S) ==
    [S EXCEPT !.index = [k \in IndexKeys |->
                           IF k \in SeqToSet(AllStatuses) THEN {} ELSE S.index[k]]]

rebuild_indexes(S) ==
    LET C == clear_all_indexes(S)
        scanned == { S.meta[i] : i \in DOMAIN S.meta }
    IN  [C EXCEPT !.index = [k \in IndexKeys |->
            C.index[k] \cup
            { md.execution_id : md \in
                { x \in scanned : /\ Truthy(x.status)
                                  /\ Truthy(x.execution_id)
                                  /\ make_index_key(x.status) = k } }]]

-----------------------------------------------------------------------------
(* DurableStateSerializer *)

serialize_state(inp, status, error, t) ==
    [ task |-> inp.task, context |-> inp.context,
      step_index |-> inp.step_index, step_name |-> inp.step_name,
      status |-> status, error |-> error, timestamp |-> t ]

deserialize_state(state) ==
    [ task |-> state.task, context_data |-> state.context,
      step_index |-> state.step_index, step_name |-> state.step_name,
      status |-> state.status, error |-> state.error ]

-----------------------------------------------------------------------------
(* DurableExecution; a Manager m is [execution_id, auto_cleanup] *)

Manager(execution_id, auto_cleanup) ==
    [execution_id |-> execution_id, auto_cleanup |-> auto_cleanup]

\* a state dictionary is truthy unless it is None or empty
StateTruthy(state) == state # Absent /\ DOMAIN state # {}

load_checkpoint_async(S, m) ==
    LET state == load_state_async(S, m.execution_id)
    IN  IF state = Absent THEN Absent ELSE deserialize_state(state)

\* mark_completed_async deleting the record whatever auto_cleanup says
mark_completed_async_always_delete(S, m, t) ==
    delete_state_async(S, m.execution_id).store

mark_completed_async(S, m, t) ==
    IF m.auto_cleanup
    THEN delete_state_async(S, m.execution_id).store
    ELSE LET state == load_state_async(S, m.execution_id)
         IN  IF StateTruthy(state)
             THEN save_state_async(S, m.execution_id,
                                   Put(state, "status", "completed"), t)
             ELSE S

\* mark_failed_async setting the status but not the error
mark_failed_async_no_error(S, m, error) ==
    LET state == load_state_async(S, m.execution_id)
    IN  IF StateTruthy(state)
        THEN [ write |-> TRUE, state |-> Put(state, "status", "failed") ]
        ELSE [ write |-> FALSE ]

\* mark_failed_async writing a record although none was loaded
mark_failed_async_create(S, m, error) ==
    LET state == load_state_async(S, m.execution_id)
        base == IF StateTruthy(state)
                THEN state
                ELSE [ task |-> PyNone, context |-> PyNone, step_index |-> 0,
                       step_name |-> PyNone, status |-> PyNone, error |-> PyNone,
                       timestamp |-> NoTime ]
    IN  [ write |-> TRUE,
          state |-> Put(Put(base, "status", "failed"), "error", error) ]

mark_failed_async(S, m, error) ==
    LET state == load_state_async(S, m.execution_id)
    IN  IF StateTruthy(state)
        THEN [ write |-> TRUE,
               state |-> Put(Put(state, "status", "failed"), "error", error) ]
        ELSE [ write |-> FALSE ]

\* A mark suspended at "await self.storage.load_state_async(...)" is a task
\* [op, m, error, state]: state is what the load returned.  mark_resume is the
\* rest of the coroutine, run on the store S of the moment it resumes.

\* the rest of a mark that loads the record again when it resumes
mark_resume_reload(S, task, t) ==
    LET state == load_state_async(S, task.m.execution_id)
    IN  IF ~StateTruthy(state)
        THEN S
        ELSE IF task.op = "mark_failed"
             THEN save_state_async(
                    S, task.m.execution_id,
                    Put(Put(state, "status", "failed"), "error", task.error), t)
             ELSE save_state_async(
                    S, task.m.execution_id, Put(state, "status", "completed"), t)

mark_resume(S, task, t) ==
    IF ~StateTruthy(task.state)
    THEN S
    ELSE IF task.op = "mark_failed"
         THEN save_state_async(
                S, task.m.execution_id,
                Put(Put(task.state, "status", "failed"), "error", task.error), t)
         ELSE save_state_async(
                S, task.m.execution_id, Put(task.state, "status", "completed"), t)

\* _get_execution_info_async
get_execution_info_async(S, m) ==
    LET state == load_state_async(S, m.execution_id)
    IN  IF ~StateTruthy(state)
        THEN Absent
        ELSE [ execution_id |-> m.execution_id,
               status       |-> Get(state, "status", PyNone),
               step_index   |-> state.step_index,
               step_name    |-> Get(state, "step_name", PyNone),
               timestamp    |-> Get(state, "timestamp", NoTime),
               saved_at     |-> Get(state, "saved_at", NoTime),
               error        |-> Get(state, "error", PyNone) ]

\* load_by_id_async building the Manager with the constructor's default
load_by_id_async_default(S, execution_id) ==
    LET state == load_state_async(S, execution_id)
    IN  IF state = Absent THEN Absent ELSE Manager(execution_id, TRUE)

load_by_id_async(S, execution_id) ==
    LET state == load_state_async(S, execution_id)
    IN  IF state = Absent THEN Absent ELSE Manager(execution_id, FALSE)

-----------------------------------------------------------------------------
(* The blocking variants.  A request req = [op, m, inp, status, error] names *)
(* an operation of a Manager and its arguments; ctx is the caller's context: *)
(* "running" (an event loop is running), "idle" (the thread has an event     *)
(* loop that is not running) or "none" (get_event_loop raises RuntimeError). *)
(* A fault is the exception the storage backend raises in one run of the     *)
(* operation, before it changed anything, or "ok".                           *)

Faults == {"ok", "RuntimeError", "ConnectionError"}

Contexts == {"running", "idle", "none"}

\* the wrappers that call asyncio.create_task when the loop is running
ScheduledOps == {"save_checkpoint", "mark_completed", "mark_failed"}

\* the wrappers that raise RuntimeError when the loop is running
CheckedOps == {"load_checkpoint", "get_execution_info", "load_by_id"}

Request(op, m, inp, status, error) ==
    [op |-> op, m |-> m, inp |-> inp, status |-> status, error |-> error]

\* one run of the coroutine of req to completion: the store after it, the
\* exception it raised and the value it returned
run_async(S, req, t, fault) ==
    IF fault # "ok"
    THEN [store |-> S, raised |-> fault, ret |-> Absent]
    ELSE CASE req.op = "save_checkpoint" ->
                [ store |-> save_state_async(
                              S, req.m.execution_id,
                              serialize_state(req.inp, req.status, req.error, t), t),
                  raised |-> "none", ret |-> Absent ]
           [] req.op = "mark_completed" ->
                [ store |-> mark_completed_async(S, req.m, t),
                  raised |-> "none", ret |-> Absent ]
           [] req.op = "mark_failed" ->
                LET r == mark_failed_async(S, req.m, req.error)
                IN  [ store |-> IF r.write
                                THEN save_state_async(S, req.m.execution_id, r.state, t)
                                ELSE S,
                      raised |-> "none", ret |-> Absent ]
           [] req.op = "load_checkpoint" ->
                [ store |-> S, raised |-> "none",
                  ret |-> load_checkpoint_async(S, req.m) ]
           [] req.op = "get_execution_info" ->
                [ store |-> S, raised |-> "none",
                  ret |-> get_execution_info_async(S, req.m) ]
           [] req.op = "load_by_id" ->
                [ store |-> S, raised |-> "none",
                  ret |-> load_by_id_async(S, req.m.execution_id) ]

\* a blocking variant called in context ctx; f1 and f2 are the faults of the
\* first and of the second run of the coroutine
sync_call(S, req, ctx, f1, f2, t) ==
    LET first == run_async(S, req, t, f1)
        second == run_async(first.store, req, t, f2)
    IN  IF ctx = "running"
        THEN IF req.op \in ScheduledOps
             THEN \* asyncio.create_task(...), and the wrapper returns
                  [ store |-> S, raised |-> "none", ret |-> Absent,
                    attempts |-> 0, scheduled |-> TRUE ]
             ELSE \* the RuntimeError raised in the try block is caught, and
                  \* asyncio.run raises RuntimeError in a running loop
                  [ store |-> S, raised |-> "RuntimeError", ret |-> Absent,
                    attempts |-> 0, scheduled |-> FALSE ]
        ELSE IF ctx = "none"
        THEN \* get_event_loop raised: asyncio.run(...) in the except block
             [ store |-> first.store, raised |-> first.raised, ret |-> first.ret,
               attempts |-> 1, scheduled |-> FALSE ]
        ELSE \* loop.run_until_complete(...), and asyncio.run(...) in the
             \* except block when that raised RuntimeError
             IF first.raised = "RuntimeError"
             THEN [ store |-> second.store, raised |-> second.raised,
                    ret |-> second.ret, attempts |-> 2, scheduled |-> FALSE ]
             ELSE [ store |-> first.store, raised |-> first.raised,
                    ret |-> first.ret, attempts |-> 1, scheduled |-> FALSE ]

-----------------------------------------------------------------------------
(* The state machine *)

\* an identifier is in the index set of a status exactly when its metadata
\* hash reports that status
IndexConsistent(S) ==
    \A i \in Ids, st \in Statuses :
        i \in S.index[st] <=> (i \in DOMAIN S.meta /\ S.meta[i].status = st)

SetStore(S) ==
    /\ primary' = S.primary
    /\ meta' = S.meta
    /\ index' = S.index

Init ==
    /\ primary = <<>>
    /\ meta = <<>>
    /\ index = [k \in IndexKeys |-> {}]
    /\ now = 0
    /\ call = [op |-> "init"]
    /\ pending = <<>>

\* time passes
Tick ==
    /\ now < MaxClock
    /\ now' = now + 1
    /\ primary' = evict(primary, now + 1)
    /\ meta' = evict(meta, now + 1)
    /\ UNCHANGED <<index, call, pending>>

SaveCheckpointAsync(m, inp, status, error) ==
    LET state == serialize_state(inp, status, error, now)
    IN  /\ SetStore(save_state_async(Store, m.execution_id, state, now))
        /\ call' = [op |-> "save_checkpoint", id |-> m.execution_id,
                    existed |-> m.execution_id \in DOMAIN primary,
                    changed |-> load_state_async(Store, m.execution_id) #
                                  load_state_async(
                                    save_state_async(Store, m.execution_id, state, now),
                                    m.execution_id),
                    inp |-> inp, status |-> status, error |-> error]
        /\ UNCHANGED <<now, pending>>

\* a load that consumes the record it returns
LoadCheckpointAsync_consume(m) ==
    /\ call' = [op |-> "load_checkpoint", id |-> m.execution_id,
                ret |-> load_checkpoint_async(Store, m)]
    /\ SetStore(delete_state_async(Store, m.execution_id).store)
    /\ UNCHANGED <<now, pending>>

LoadCheckpointAsync(m) ==
    /\ call' = [op |-> "load_checkpoint", id |-> m.execution_id,
                ret |-> load_checkpoint_async(Store, m)]
    /\ UNCHANGED <<primary, meta, index, now, pending>>

MarkCompletedAsync(m) ==
    /\ SetStore(mark_completed_async(Store, m, now))
    /\ call' = [op |-> "mark_completed", id |-> m.execution_id,
                existed |-> m.execution_id \in DOMAIN primary,
                auto_cleanup |-> m.auto_cleanup]
    /\ UNCHANGED <<now, pending>>

MarkFailedAsync(m, error) ==
    LET r == mark_failed_async(Store, m, error)
    IN  /\ IF r.write
           THEN SetStore(save_state_async(Store, m.execution_id, r.state, now))
           ELSE UNCHANGED <<primary, meta, index>>
        /\ call' = [op |-> "mark_failed", id |-> m.execution_id,
                    existed |-> m.execution_id \in DOMAIN primary,
                    error |-> error]
        /\ UNCHANGED <<now, pending>>

DeleteStateAsync(execution_id) ==
    LET d == delete_state_async(Store, execution_id)
    IN  /\ SetStore(d.store)
        /\ call' = [op |-> "delete_state", id |-> execution_id,
                    existed |-> execution_id \in DOMAIN primary,
                    ret |-> d.ret]
        /\ UNCHANGED <<now, pending>>

ListExecutionsAsync(status, limit) ==
    /\ \E r \in list_executions_async(Store, status, limit) :
         call' = [op |-> "list_executions", status |-> status,
                  limit |-> limit, ret |-> r]
    /\ UNCHANGED <<primary, meta, index, now, pending>>

CleanupOldExecutionsAsync(older_than_days) ==
    LET c == cleanup_old_executions_async(Store, older_than_days, now)
    IN  /\ SetStore(c.store)
        /\ call' = [op |-> "cleanup_old_executions",
                    older_than_days |-> older_than_days, ret |-> c.count]
        /\ UNCHANGED <<now, pending>>

ClearAllIndexes ==
    /\ SetStore(clear_all_indexes(Store))
    /\ call' = [op |-> "clear_all_indexes"]
    /\ UNCHANGED <<now, pending>>

RebuildIndexes ==
    /\ SetStore(rebuild_indexes(Store))
    /\ call' = [op |-> "rebuild_indexes", drifted |-> ~IndexConsistent(Store)]
    /\ UNCHANGED <<now, pending>>

\* state dictionaries passed to save_state_async directly, with a status or a
\* step_name that is None or empty
RawStates ==
    { [ task |-> "task", context |-> "ctx0", step_index |-> 0,
        step_name |-> sn, status |-> st, error |-> PyNone, timestamp |-> 0 ] :
        sn \in {"", "fetch"}, st \in {PyNone, "", "running"} }

\* state dictionaries with a timestamp that is None, unparsable or 0
TimestampStates ==
    { [ task |-> "task", context |-> "ctx0", step_index |-> 0,
        step_name |-> "fetch", status |-> st, error |-> PyNone, timestamp |-> ts ] :
        st \in SeqToSet(TerminalStatuses), ts \in {NoTime, BadTime, 0} }

\* save_state_async called on the storage with a state dictionary
SaveStateAsync(execution_id, state) ==
    /\ SetStore(save_state_async(Store, execution_id, state, now))
    /\ call' = [op |-> "save_state", id |-> execution_id, state |-> state]
    /\ UNCHANGED <<now, pending>>

SetTtl(execution_id, ttl_seconds) ==
    /\ SetStore(set_ttl(Store, execution_id, ttl_seconds, now))
    /\ call' = [op |-> "set_ttl", id |-> execution_id,
                ttl_seconds |-> ttl_seconds]
    /\ UNCHANGED <<now, pending>>

GetStats ==
    /\ call' = [op |-> "get_stats", ret |-> get_stats(Store)]
    /\ UNCHANGED <<primary, meta, index, now, pending>>

LoadByIdAsync(execution_id) ==
    /\ call' = [op |-> "load_by_id", id |-> execution_id,
                ret |-> load_by_id_async(Store, execution_id)]
    /\ UNCHANGED <<primary, meta, index, now, pending>>

\* the value under the primary key of a record is replaced by bytes that
\* json.loads rejects
Corrupt(execution_id) ==
    /\ execution_id \in DOMAIN primary
    /\ "json" \in DOMAIN primary[execution_id]
    /\ primary' = Put(primary, execution_id, [raw |-> "garbage"])
    /\ call' = [op |-> "corrupt", id |-> execution_id]
    /\ UNCHANGED <<meta, index, now, pending>>

\* mark_failed_async, or mark_completed_async without auto_cleanup, runs up to
\* the end of its load and is suspended there
MarkLoad(m, op, error) ==
    /\ Len(pending) < MaxPending
    /\ op = "mark_completed" => ~m.auto_cleanup
    /\ pending' = Append(pending,
                         [op |-> op, m |-> m, error |-> error,
                          state |-> load_state_async(Store, m.execution_id)])
    /\ call' = [op |-> "mark_load", name |-> op, id |-> m.execution_id]
    /\ UNCHANGED <<primary, meta, index, now>>

\* the oldest suspended mark runs to its end
MarkResume ==
    /\ pending # <<>>
    /\ LET task == Head(pending)
       IN  /\ SetStore(mark_resume(Store, task, now))
           /\ call' = [op |-> "mark_resume", name |-> task.op,
                       id |-> task.m.execution_id, loaded |-> task.state,
                       before |-> load_state_async(Store, task.m.execution_id)]
    /\ pending' = Tail(pending)
    /\ UNCHANGED now

\* a blocking variant is called
SyncCall(req, ctx, f1, f2) ==
    LET r == sync_call(Store, req, ctx, f1, f2, now)
    IN  /\ r.scheduled => Len(pending) < MaxPending
        /\ SetStore(r.store)
        /\ pending' = IF r.scheduled THEN Append(pending, req) ELSE pending
        /\ call' = [op |-> "sync", name |-> req.op, id |-> req.m.execution_id,
                    req |-> req, ctx |-> ctx, f1 |-> f1,
                    raised |-> r.raised, ret |-> r.ret,
                    attempts |-> r.attempts, scheduled |-> r.scheduled]
        /\ UNCHANGED now

\* the event loop runs the oldest background task
RunPending(fault) ==
    /\ pending # <<>>
    /\ LET r == run_async(Store, Head(pending), now, fault)
       IN  /\ SetStore(r.store)
           /\ call' = [op |-> "task", name |-> Head(pending).op,
                       id |-> Head(pending).m.execution_id, raised |-> r.raised]
    /\ pending' = Tail(pending)
    /\ UNCHANGED now

\* the checkpoint operations over the identifiers ids, with the checkpoints
\* inps saved in one of the statuses sts
NextOver(ids, inps, sts) ==
    \/ Tick
    \/ \E id \in ids, inp \in inps, status \in sts :
         SaveCheckpointAsync(Manager(id, TRUE), inp, status,
                             IF status = "failed" THEN "timeout" ELSE PyNone)
    \/ \E id \in ids : LoadCheckpointAsync(Manager(id, TRUE))
    \/ \E id \in ids, ac \in BOOLEAN :
         MarkCompletedAsync(Manager(id, ac))
    \/ \E id \in ids, error \in ErrorInputs :
         MarkFailedAsync(Manager(id, TRUE), error)
    \/ \E id \in ids : DeleteStateAsync(id)
    \/ \E status \in {PyNone} \cup Statuses, limit \in {<<>>} :
         ListExecutionsAsync(status, limit)
    \/ \E days \in DaysInputs : CleanupOldExecutionsAsync(days)

\* one execution, checkpoints saved in every status
Next == NextOver({"e1"}, CheckpointInputs, Statuses)

Spec == Init /\ [][Next]_vars

\* one execution, with the operator's maintenance operations
NextMaint ==
    \/ Next
    \/ ClearAllIndexes
    \/ RebuildIndexes

SpecMaint == Init /\ [][NextMaint]_vars

\* two executions, checkpoints of the first step saved in the default status
NextMulti == NextOver(Ids, {c \in CheckpointInputs : c.step_index = 0}, {"running"})

SpecMulti == Init /\ [][NextMulti]_vars

\* one execution whose primary record can become undecodable
NextCorrupt ==
    \/ Next
    \/ Corrupt("e1")
    \/ LoadByIdAsync("e1")

SpecCorrupt == Init /\ [][NextCorrupt]_vars

\* one execution, saved through the Manager and through the storage
NextRaw ==
    \/ Next
    \/ \E state \in RawStates : SaveStateAsync("e1", state)

SpecRaw == Init /\ [][NextRaw]_vars

\* one execution whose marks interleave with saves and deletes
NextRace ==
    \/ Tick
    \/ \E inp \in CheckpointInputs :
         SaveCheckpointAsync(Manager("e1", FALSE), inp, "running", PyNone)
    \/ DeleteStateAsync("e1")
    \/ MarkLoad(Manager("e1", FALSE), "mark_completed", PyNone)
    \/ \E error \in ErrorInputs :
         MarkLoad(Manager("e1", FALSE), "mark_failed", error)
    \/ MarkResume

SpecRace == Init /\ [][NextRace]_vars

\* one execution whose keys can be given an expiry
NextTtl ==
    \/ Next
    \/ \E ttl_seconds \in TtlInputs : SetTtl("e1", ttl_seconds)

SpecTtl == Init /\ [][NextTtl]_vars

\* two executions saved through the storage with any timestamp, and cleaned up
NextClean ==
    \/ Tick
    \/ \E id \in Ids, state \in TimestampStates : SaveStateAsync(id, state)
    \/ \E ttl_seconds \in TtlInputs : SetTtl("e1", ttl_seconds)
    \/ \E days \in DaysInputs : CleanupOldExecutionsAsync(days)

SpecClean == Init /\ [][NextClean]_vars

\* two executions written, marked, deleted and given an expiry
NextIso ==
    \/ Tick
    \/ \E id \in Ids, inp \in {c \in CheckpointInputs : c.step_index = 0} :
         SaveCheckpointAsync(Manager(id, TRUE), inp, "running", PyNone)
    \/ \E id \in Ids, ac \in BOOLEAN : MarkCompletedAsync(Manager(id, ac))
    \/ \E id \in Ids, error \in ErrorInputs :
         MarkFailedAsync(Manager(id, TRUE), error)
    \/ \E id \in Ids : DeleteStateAsync(id)
    \/ \E id \in Ids, ttl_seconds \in TtlInputs : SetTtl(id, ttl_seconds)

SpecIso == Init /\ [][NextIso]_vars

\* one execution, with the statistics read
NextStats ==
    \/ Next
    \/ GetStats

SpecStats == Init /\ [][NextStats]_vars

\* the requests made of the blocking variants
SyncRequests ==
    LET inp == CHOOSE i \in CheckpointInputs : i.step_index = 0
    IN  { Request(op, Manager("e1", TRUE), inp, "running",
                  IF op = "mark_failed" THEN "timeout" ELSE PyNone) :
            op \in ScheduledOps \cup CheckedOps }
        \cup { Request("mark_completed", Manager("e1", FALSE), inp, "running", PyNone) }

\* one execution driven through the blocking variants
NextBlocking ==
    \/ Tick
    \/ \E req \in SyncRequests, ctx \in Contexts, f1 \in Faults :
         \E f2 \in IF ctx = "idle" /\ f1 = "RuntimeError" THEN Faults ELSE {"ok"} :
           SyncCall(req, ctx, f1, f2)
    \/ \E fault \in Faults : RunPending(fault)

SpecBlocking == Init /\ [][NextBlocking]_vars

\* two executions, listed with a limit
NextList ==
    \/ NextMulti
    \/ \E status \in {PyNone} \cup Statuses, limit \in LimitInputs \ {<<>>} :
         ListExecutionsAsync(status, limit)

SpecList == Init /\ [][NextList]_vars

-----------------------------------------------------------------------------
(* Properties *)

\* the step taken is the operation op (Tick alone changes now)
Step(op) == call'.op = op /\ now' = now

\* the identifiers that occur in a returned list
ListedIds(r) == {r[k].execution_id : k \in DOMAIN r}

\* C1: in every state reached by saves, marks and deletes, an identifier is in
\* the index set of a status if and only if its metadata reports that status.
C1_IndexConsistency == IndexConsistent(Store)

\* C2: after rebuild_indexes, an identifier is in the index set of a status if
\* and only if its metadata reports that status, whatever the drift before.
C2_RebuildRestoresConsistency ==
    call.op = "rebuild_indexes" => IndexConsistent(Store)

C2_Witness ==
    /\ call.op = "rebuild_indexes"
    /\ call.drifted
    /\ DOMAIN meta # {}
    /\ \E st \in Statuses : index[st] # {}

\* C3: after a save over an existing record, load returns the content of that
\* save and the unfiltered list holds exactly one entry for the identifier,
\* with the content of that save.
C3_OverwriteSemantics ==
    (call.op = "save_checkpoint" /\ call.existed) =>
        LET state == load_state_async(Store, call.id)
        IN  /\ state # Absent
            /\ state.step_index = call.inp.step_index
            /\ state.step_name = call.inp.step_name
            /\ state.task = call.inp.task
            /\ state.context = call.inp.context
            /\ state.status = call.status
            /\ state.error = call.error
            /\ \A r \in list_executions_async(Store, PyNone, <<>>) :
                 /\ Cardinality({k \in DOMAIN r : r[k].execution_id = call.id}) = 1
                 /\ \A k \in DOMAIN r :
                      r[k].execution_id = call.id =>
                        /\ r[k].step_index = call.inp.step_index
                        /\ r[k].step_name = call.inp.step_name
                        /\ r[k].status = call.status

C3_Witness ==
    /\ call.op = "save_checkpoint"
    /\ call.existed
    /\ call.changed
    /\ call.inp.step_index = 1
    /\ call.status = "failed"

\* C4: cleanup removes exactly the records whose current status is completed
\* or failed and whose timestamp is before the cutoff, leaves every other
\* record untouched, and returns the number of records removed.
C4_CleanupExact ==
    [][ Step("cleanup_old_executions") =>
          LET cutoff == now - call'.older_than_days
              old == { i \in DOMAIN primary :
                         LET state == load_state_async(Store, i)
                         IN  /\ state.status \in SeqToSet(TerminalStatuses)
                             /\ state.timestamp # NoTime
                             /\ state.timestamp < cutoff }
          IN  /\ DOMAIN primary' = DOMAIN primary \ old
              /\ DOMAIN meta' = DOMAIN meta \ old
              /\ \A i \in DOMAIN primary \ old :
                   primary'[i] = primary[i] /\ meta'[i] = meta[i]
              /\ call'.ret = Cardinality(old) ]_vars

\* C5: mark_completed on an existing record, then load: absent when
\* auto_cleanup is enabled, a record with status completed when it is disabled.
C5_AutoCleanupVsRetain ==
    (call.op = "mark_completed" /\ call.existed) =>
        LET loaded == load_checkpoint_async(
                        Store, Manager(call.id, call.auto_cleanup))
        IN  IF call.auto_cleanup
            THEN loaded = Absent
            ELSE loaded # Absent /\ loaded.status = "completed"

C5_Witness ==
    /\ call.op = "mark_completed"
    /\ call.existed
    /\ ~call.auto_cleanup
    /\ call.id \in DOMAIN primary
    /\ call.id \in index["running"]

\* C6: mark_failed(error) on an existing record sets status failed and the
\* error, keeps every other field but saved_at, and the identifier is listed
\* under status failed.
C6_MarkFailedFrame ==
    [][ (Step("mark_failed") /\ call'.existed) =>
          LET old == load_state_async(Store, call'.id)
              new == load_state_async(Store', call'.id)
          IN  /\ new # Absent
              /\ new.status = "failed"
              /\ new.error = call'.error
              /\ DOMAIN new = DOMAIN old
              /\ \A k \in DOMAIN old \ {"status", "error", "saved_at"} :
                   new[k] = old[k]
              /\ \A r \in list_executions_async(Store', "failed", <<>>) :
                   call'.id \in ListedIds(r) ]_vars

C6_Witness ==
    /\ call.op = "mark_failed"
    /\ call.existed
    /\ call.id \in DOMAIN primary
    /\ LET state == load_state_async(Store, call.id)
       IN  /\ state.step_index = 1
           /\ state.timestamp < state.saved_at

\* C7: with no record for the identifier, mark_failed, and mark_completed with
\* auto_cleanup disabled, change nothing in the store and create no record.
C7_MarkNoRecordNoOp ==
    [][ ( \/ Step("mark_failed") /\ ~call'.existed
          \/ Step("mark_completed") /\ ~call'.existed /\ ~call'.auto_cleanup ) =>
          UNCHANGED <<primary, meta, index>> ]_vars

C7_Witness ==
    /\ call.op = "mark_failed"
    /\ ~call.existed
    /\ call.id \notin DOMAIN primary
    /\ \E st \in Statuses : call.id \in index[st]

\* C8: delete removes the primary record, the metadata and every index
\* membership of the identifier, and returns true exactly when something was
\* removed.
C8_DeleteRemovesAll ==
    call.op = "delete_state" =>
        /\ call.id \notin DOMAIN primary
        /\ call.id \notin DOMAIN meta
        /\ \A k \in IndexKeys : call.id \notin index[k]
        /\ call.ret <=> call.existed

\* C9: a list filtered by status S holds exactly the entries of the unfiltered
\* list whose status is S.
C9_FilteredAgreesWithUnfiltered ==
    (call.op = "list_executions" /\ Truthy(call.status)) =>
        \A u \in list_executions_async(Store, PyNone, <<>>) :
            SeqToSet(call.ret) = {e \in SeqToSet(u) : e.status = call.status}

\* C10: in a returned list an execution saved later (greater saved_at) comes
\* before one saved earlier.
C10_MostRecentlySavedFirst ==
    call.op = "list_executions" =>
        \A i, j \in DOMAIN call.ret :
            call.ret[i].saved_at > call.ret[j].saved_at => i < j

\* C11: a list called with a limit returns at most limit entries, and no
\* entry left out has a timestamp greater than a returned one.
C11_LimitTruncates ==
    (call.op = "list_executions" /\ call.limit # <<>>) =>
        /\ Len(call.ret) <= call.limit[1]
        /\ \A e \in list_entries(Store, call.status) \ SeqToSet(call.ret) :
             \A k \in DOMAIN call.ret : call.ret[k].timestamp >= e.timestamp

\* C12: a blocking variant called while an event loop is running raises the
\* wrong-context error at once, without running or scheduling the operation.
C12_BlockingFailsFast ==
    (call.op = "sync" /\ call.ctx = "running") =>
        /\ call.raised = "RuntimeError"
        /\ call.attempts = 0
        /\ ~call.scheduled

\* C13: a blocking save_checkpoint, mark_completed or mark_failed leaves the
\* store as awaiting its async variant does, and raises what that raises.
C13_BlockingEquivalent ==
    [][ Step("sync") =>
          (call'.name \in ScheduledOps =>
             LET awaited == run_async(Store, call'.req, now, call'.f1)
             IN  /\ call'.raised = awaited.raised
                 /\ Store' = awaited.store) ]_vars

\* C14: one call of a blocking variant runs the storage operation at most
\* once, and an exception of that run is the outcome of the call.
C14_NoImplicitRetry ==
    call.op = "sync" =>
        /\ call.attempts <= 1
        /\ (call.attempts = 1 /\ call.f1 # "ok") => call.raised = call.f1

\* C15: a load leaves the primary records, the metadata and the index sets as
\* they were, a second load right after it returns what it returned, and the
\* load of an identifier without a record returns absent.
C15_IdempotentLoad ==
    [][ Step("load_checkpoint") =>
          /\ Store' = Store
          /\ call'.ret = load_checkpoint_async(Store', Manager(call'.id, TRUE))
          /\ call'.id \notin DOMAIN primary => call'.ret = Absent ]_vars

C15_Witness ==
    /\ call.op = "load_checkpoint"
    /\ call.ret # Absent
    /\ call.id \in DOMAIN primary
    /\ call.id \in DOMAIN meta

\* C16: load_by_id_async returns a Manager exactly when the record of the
\* identifier loads; the Manager has that identifier and auto_cleanup off, so
\* its mark_completed keeps the record with status completed; the store is as
\* it was.
C16_LoadByIdRehydrates ==
    [][ Step("load_by_id") =>
          /\ Store' = Store
          /\ (call'.ret # Absent) <=> (load_state_async(Store, call'.id) # Absent)
          /\ call'.ret # Absent =>
                LET after == mark_completed_async(Store', call'.ret, now)
                    kept == load_state_async(after, call'.id)
                IN  /\ call'.ret.execution_id = call'.id
                    /\ ~call'.ret.auto_cleanup
                    /\ kept # Absent
                    /\ kept.status = "completed" ]_vars

C16_Witness ==
    /\ call.op = "load_by_id"
    /\ call.ret # Absent
    /\ call.id \in DOMAIN primary
    /\ load_state_async(Store, call.id).status = "running"

\* the primary key of the identifier holds a value that does not decode
Undecodable(S, execution_id) ==
    /\ execution_id \in DOMAIN S.primary
    /\ load_state_async(S, execution_id) = Absent

\* C17: on an identifier whose primary value does not decode, load and
\* load_by_id return absent, mark_failed and mark_completed without
\* auto_cleanup change nothing, and delete returns what it returns for a
\* missing record and leaves no metadata and no index entry of the identifier.
C17_UndecodableAsMissing ==
    [][ /\ Step("load_checkpoint") /\ Undecodable(Store, call'.id)
            => call'.ret = Absent
        /\ Step("load_by_id") /\ Undecodable(Store, call'.id)
            => call'.ret = Absent
        /\ Step("mark_failed") /\ Undecodable(Store, call'.id)
            => Store' = Store
        /\ Step("mark_completed") /\ Undecodable(Store, call'.id)
                                  /\ ~call'.auto_cleanup
            => Store' = Store
        /\ Step("delete_state") /\ Undecodable(Store, call'.id)
            => /\ call'.ret = FALSE
               /\ call'.id \notin DOMAIN primary'
               /\ call'.id \notin DOMAIN meta'
               /\ \A st \in IndexKeys : call'.id \notin index'[st] ]_vars

\* C18: every stored record with a non-empty error has status failed.
C18_ErrorOnlyWhenFailed ==
    \A id \in DOMAIN primary :
        LET state == load_state_async(Store, id)
        IN  (state # Absent /\ Truthy(Get(state, "error", PyNone)))
                => Get(state, "status", PyNone) = "failed"

\* C19: mark_completed and mark_failed change the status of a record only
\* when that status is running: a completed, failed or paused record that is
\* still stored after the mark has the status it had.
C19_MarksOnlyFromRunning ==
    [][ (Step("mark_completed") \/ Step("mark_failed")) =>
          LET old == load_state_async(Store, call'.id)
              new == load_state_async(Store', call'.id)
          IN  (old # Absent /\ new # Absent /\ old.status # "running")
                  => new.status = old.status ]_vars

\* C20: an identifier has metadata exactly when it has a primary record; the
\* step_index, timestamp and saved_at of the metadata are those of the record,
\* its status and step_name are those of the record when the record has them
\* non-empty, and the identifier is in the index set of the metadata's status.
C20_MetadataProjection ==
    \A id \in Ids :
        /\ id \in DOMAIN meta <=> id \in DOMAIN primary
        /\ (id \in DOMAIN primary /\ load_state_async(Store, id) # Absent) =>
              LET state == load_state_async(Store, id)
                  metadata == meta[id]
              IN  /\ Truthy(state.status) => metadata.status = state.status
                  /\ Truthy(state.step_name) => metadata.step_name = state.step_name
                  /\ int(metadata.step_index) = state.step_index
                  /\ metadata.timestamp = state.timestamp
                  /\ metadata.saved_at = state.saved_at
                  /\ id \in index[make_index_key(metadata.status)]

\* C21: whenever a load finds the primary record of an identifier, the
\* metadata of the identifier is that of the same save (same saved_at, status
\* and step) and the identifier is in the index set that save added it to.
C21_NoPartialCheckpoint ==
    \A id \in DOMAIN primary :
        LET state == load_state_async(Store, id)
        IN  state # Absent =>
              /\ id \in DOMAIN meta
              /\ meta[id].saved_at = state.saved_at
              /\ meta[id].status = state.status
              /\ int(meta[id].step_index) = state.step_index
              /\ id \in index[make_index_key(save_index_status(state))]

C21_Witness ==
    /\ call.op = "list_executions"
    /\ call.status = "paused"
    /\ Len(call.ret) = 1
    /\ load_state_async(Store, call.ret[1].execution_id) # Absent
    /\ load_state_async(Store, call.ret[1].execution_id).saved_at = call.ret[1].saved_at
    /\ call.ret[1].saved_at > 0

\* C22: a mark that resumes after its load writes the step_index and
\* step_name it loaded, so the checkpoint stored at that moment is lost only
\* when the record was written between the load and the re-save.
C22_LostUpdateOnlyWhenRaced ==
    [][ Step("mark_resume") =>
          (StateTruthy(call'.loaded) =>
             LET new == load_state_async(Store', call'.id)
             IN  /\ new # Absent
                 /\ new.step_index = call'.loaded.step_index
                 /\ new.step_name = call'.loaded.step_name
                 /\ (call'.before # Absent
                        /\ call'.before.step_index # new.step_index)
                      => call'.before # call'.loaded) ]_vars

C22_Witness ==
    /\ call.op = "mark_resume"
    /\ call.name = "mark_failed"
    /\ call.before # Absent
    /\ call.before.step_index = 1
    /\ load_state_async(Store, call.id) # Absent
    /\ load_state_async(Store, call.id).step_index = 0
    /\ load_state_async(Store, call.id).status = "failed"

\* C23: the primary record and the metadata of an identifier are present
\* together and evicted together, whatever was saved after set_ttl.
C23_EvictedTogether ==
    \A id \in Ids : id \in DOMAIN primary <=> id \in DOMAIN meta

\* the identifier is in a terminal index set and its metadata is gone or has
\* a timestamp that is empty or does not parse
Skipped(S, id) ==
    /\ \E k \in DOMAIN TerminalStatuses :
         id \in S.index[make_index_key(TerminalStatuses[k])]
    /\ id \in DOMAIN S.meta => S.meta[id].timestamp \in {NoTime, BadTime}

\* C24: cleanup leaves every identifier alone whose metadata is gone or has an
\* empty or unparsable timestamp, still deletes every indexed terminal
\* identifier with a timestamp before the cutoff, and returns the number of
\* identifiers it deleted.
C24_CleanupSkipsBadTimestamps ==
    [][ Step("cleanup_old_executions") =>
          LET cutoff == now - call'.older_than_days
              terminal == UNION { index[make_index_key(TerminalStatuses[k])] :
                                    k \in DOMAIN TerminalStatuses }
              due == { i \in terminal \cap DOMAIN meta :
                         /\ meta[i].timestamp \notin {NoTime, BadTime}
                         /\ meta[i].timestamp < cutoff }
          IN  /\ \A i \in Ids : Skipped(Store, i) =>
                    /\ i \in DOMAIN primary' <=> i \in DOMAIN primary
                    /\ i \in DOMAIN primary => primary'[i] = primary[i]
                    /\ i \in DOMAIN meta' <=> i \in DOMAIN meta
                    /\ i \in DOMAIN meta => meta'[i] = meta[i]
                    /\ \A st \in IndexKeys : i \in index'[st] <=> i \in index[st]
              /\ \A i \in due : i \notin DOMAIN primary' /\ i \notin DOMAIN meta'
              /\ call'.ret = Cardinality(due) ]_vars

C24_Witness ==
    /\ call.op = "cleanup_old_executions"
    /\ call.ret = 1
    /\ \E i \in Ids :
         /\ Skipped(Store, i)
         /\ i \in DOMAIN meta
         /\ meta[i].timestamp = BadTime
         /\ i \in DOMAIN primary

\* the operations issued for one identifier
IdOps == {"save_checkpoint", "mark_completed", "mark_failed", "delete_state",
          "set_ttl"}

C26_StatsCountRecords ==
    call.op = "get_stats" =>
        LET stored(st) == { i \in DOMAIN primary :
                              /\ load_state_async(Store, i) # Absent
                              /\ load_state_async(Store, i).status = st }
        IN  /\ call.ret.total_executions = Cardinality(DOMAIN primary)
            /\ \A st \in Statuses :
                 Get(call.ret.by_status, st, 0) = Cardinality(stored(st))

====
